---- MODULE Spec2Model ----
(***************************************************************************)
(* ChipSync: the per-node transaction participant (TrxParticipant) of      *)
(* src/src/transaction/participant.ts, with the record types of record.ts. *)
(*                                                                         *)
(* A TrxParticipant holds no state of its own: every update call reads and *)
(* writes through the injected state capability.  The model keeps the      *)
(* host's transaction store, the clock, and the trace of capability calls  *)
(* the last update call made.                                              *)
(***************************************************************************)
EXTENDS Integers, Sequences, FiniteSets, TLC

\* ------------------------------------------------------------------ bounds
\* Most signatures an incoming record carries, promises and commits together.
MaxSigs == 3
\* Last tick of the clock (Date.now()).
MaxTime == 1
\* Longest signature list handed to mergeSignatures in MergeSpec.
MaxMergeLen == 2

\* timingOptions.minPromiseTime of the host configuration.
minPromiseTime == 1

\* Member keys.
Keys == {"k1", "k2"}
\* The order in which Object.keys / JSON.stringify walk topology.members.
KeyOrder == <<"k1", "k2", "k3">>

\* fromKey left out by the caller (undefined is falsy in `if (fromKey)`).
NoKey == ""

\* record.ts: SignatureType
SignatureType == [promise |-> 1, nopromise |-> -1, commit |-> 2, nocommit |-> -2]

VARIABLES
  now,           \* Date.now()
  ourKey,        \* what state.getOurKey answers
  topology,      \* the topology the session's transaction was planned with
  transactions,  \* host store read by state.getTransaction: code -> <<>> or <<record>>
  thrown,        \* the error the last update call raised ("" when it resolved)
  calls,         \* the capability and helper calls the last update call made, in order
  signed,        \* the signature type the last update call appended (0: none)
  judgment,      \* what validateAndMerge and getRecordState found in the last update
                 \* call: <<>> before the first call, else <<their error>> or
                 \* <<the merged record and its RecordState>>
  regress,       \* the last update call resolved on an incoming record carrying
                 \* fewer promises or fewer commits than the stored one
  stale,         \* <<the transaction code>> when the last update call was handed
                 \* a record that agrees with a stored record carrying commits
                 \* (the same creation fields, and no signature the stored record
                 \* does not hold), else <<>>
  retry,         \* what the caller's retry does, update called again at once with
                 \* the same arguments: <<>> when the call threw, else <<the error
                 \* thrown, the type signed and the store left>>
  sigs1, sigs2,  \* MergeSpec: the two lists handed to mergeSignatures
  merged12,      \* MergeSpec: mergeSignatures(sigs1, sigs2), <<>> before the call
  merged21,      \* MergeSpec: mergeSignatures(sigs2, sigs1), <<>> before the call
  tasks,         \* RaceSpec: the two update calls in progress at the node: where
                 \* each stands, the record it was given and the prior it read
  emitted,       \* RaceSpec: the records the node handed to pushModified
  stores,        \* NetSpec: every node's transaction store
  network        \* NetSpec: the records in flight, each with the node it is sent to

vars == <<now, ourKey, topology, transactions, thrown, calls, signed, judgment,
          regress, stale, retry, sigs1, sigs2, merged12, merged21,
          tasks, emitted, stores, network>>
callVars == <<transactions, thrown, calls, signed, judgment, regress, stale, retry>>
mergeVars == <<sigs1, sigs2, merged12, merged21>>
raceVars == <<tasks, emitted>>
netVars == <<stores, network>>

\* ------------------------------------------------------------- topologies
Member(p, r) == [isParticipant |-> p, isReferee |-> r]

\* The topologies a session is planned with: two participants of which one
\* referees (scenario S1), a participant and a relay (no referee), and two
\* referees of which one takes part.
TopologyS1 == [members |-> [k1 |-> Member(TRUE, TRUE), k2 |-> Member(TRUE, FALSE)]]
TopologyRelay == [members |-> [k1 |-> Member(TRUE, FALSE), k2 |-> Member(FALSE, FALSE)]]
TopologyReferees == [members |-> [k1 |-> Member(TRUE, TRUE), k2 |-> Member(FALSE, TRUE)]]
\* The topology of the network of NetSpec: three participants, one of which referees.
TopologyNet ==
  [members |-> [k1 |-> Member(TRUE, TRUE), k2 |-> Member(TRUE, FALSE),
                k3 |-> Member(TRUE, FALSE)]]
Topologies == {TopologyS1, TopologyRelay, TopologyReferees}

\* The node under test in its topology: participant and referee, participant
\* only, relay, referee only.
Sessions ==
  {[ourKey |-> "k1", topology |-> TopologyS1],
   [ourKey |-> "k2", topology |-> TopologyS1],
   [ourKey |-> "k2", topology |-> TopologyRelay],
   [ourKey |-> "k2", topology |-> TopologyReferees]}

\* Another topology over the same keys, for a record that disagrees with the plan.
otherTopology(t) ==
  [members |-> [t.members EXCEPT !["k2"] = Member(@.isParticipant, ~@.isReferee)]]

\* ------------------------------------------------------------ conversions
Digits == <<"0", "1", "2", "3", "4", "5", "6", "7", "8", "9">>

\* Number.prototype.toString (decimal)
RECURSIVE toString(_)
toString(n) ==
  IF n < 0 THEN "-" \o toString(-n)
  ELSE IF n < 10 THEN Digits[n + 1]
  ELSE toString(n \div 10) \o Digits[(n % 10) + 1]

\* The payloads of the model are the JavaScript values {}, null and NaN,
\* named by the text that writes them.  JSON.stringify(NaN) is "null".
Payloads == {"{}", "null", "NaN"}
JSONstringifyPayload(payload) == IF payload = "NaN" THEN "null" ELSE payload

\* JSON.stringify(member): the two role flags (url and secret are unset).
JSONstringifyMember(m) ==
  "{isReferee:" \o (IF m.isReferee THEN "true" ELSE "false")
  \o ",isParticipant:" \o (IF m.isParticipant THEN "true" ELSE "false") \o "}"

RECURSIVE JSONstringifyMembers(_, _)
JSONstringifyMembers(members, i) ==
  IF i > Len(KeyOrder) THEN ""
  ELSE IF KeyOrder[i] \notin DOMAIN members THEN JSONstringifyMembers(members, i + 1)
  ELSE (IF i > 1 THEN "," ELSE "") \o KeyOrder[i] \o ":"
       \o JSONstringifyMember(members[KeyOrder[i]])
       \o JSONstringifyMembers(members, i + 1)

\* The text JSON.stringify writes for a topology; the model's topologies
\* have no links.
topologyText(t) ==
  "{links:[],members:{" \o JSONstringifyMembers(t.members, 1) \o "}}"

\* The texts of the topologies of the model, written once.
TopologyTexts ==
  [t \in Topologies \cup {otherTopology(x) : x \in Topologies} \cup {TopologyNet}
     |-> topologyText(t)]

\* JSON.stringify(topology)
JSONstringifyTopology(t) == TopologyTexts[t]

\* JSON.stringify(signature)
JSONstringifySignature(p) ==
  "{type:" \o toString(p.type) \o ",key:" \o p.key \o ",value:" \o p.value \o "}"

\* --------------------------------------------------------------- digests
RECURSIVE hashUpdateAll(_, _)
hashUpdateAll(data, i) ==
  IF i > Len(data) THEN "" ELSE data[i] \o hashUpdateAll(data, i + 1)

\* The byte stream createDigest feeds to SHA-256; the hash is taken to be
\* injective on it, so the stream stands for the digest.
createDigest(trx, additionalData) ==
  trx.transactionCode \o trx.sessionCode
  \o JSONstringifyPayload(trx.payload) \o JSONstringifyTopology(trx.topology)
  \o toString(trx.start) \o toString(trx.promisesDue) \o toString(trx.commitsDue)
  \o hashUpdateAll(additionalData, 1)

getPromiseDigest(trx, additionalData) == createDigest(trx, additionalData)

getCommitDigest(trx, additionalData) ==
  LET adds == [i \in 1..Len(trx.promises) |-> JSONstringifySignature(trx.promises[i])]
  IN createDigest(trx, adds \o additionalData)

\* The signer: the value key's signer produces over digest, and verifyDigest,
\* true exactly of that value.
signDigest(key, digest) == "sig(" \o key \o "," \o digest \o ")"
verifyDigest(key, digest, value) == value = signDigest(key, digest)

\* -------------------------------------------------------- mergeSignatures
\* Array.prototype.findIndex on keys, 1-based; 0 when absent (JavaScript's -1).
findIndex(candidates, key) ==
  IF \E i \in 1..Len(candidates) : candidates[i].key = key
  THEN CHOOSE i \in 1..Len(candidates) :
         /\ candidates[i].key = key
         /\ \A j \in 1..(i - 1) : candidates[j].key # key
  ELSE 0

\* candidates.splice(index, 1)
splice(candidates, index) ==
  [i \in 1..(Len(candidates) - 1) |->
     IF i < index THEN candidates[i] ELSE candidates[i + 1]]

\* The forEach over sigs2, from its i-th element on.
RECURSIVE mergeForEach(_, _, _)
mergeForEach(candidates, sigs, i) ==
  IF i > Len(sigs) THEN [err |-> "", val |-> candidates]
  ELSE LET p == sigs[i]
           index == findIndex(candidates, p.key)
       IN IF index >= 1
          THEN LET match == candidates[index]
               IN IF match.value # p.value \/ match.type # p.type
                  THEN [err |-> "Signature or type for " \o p.key \o " has changed",
                        val |-> <<>>]
                  ELSE mergeForEach(splice(candidates, index), sigs, i + 1)
          ELSE mergeForEach(candidates, sigs, i + 1)

\* Variants: the matched candidate is not spliced out; a changed signature
\* is not looked for, the first list's entry standing; the second list
\* replaces the first.
mergeSignaturesUnspliced(s1, s2) ==
  LET r == mergeForEach(s1, s2, 1)
  IN IF r.err # "" THEN r ELSE [err |-> "", val |-> s1 \o s2]

mergeSignaturesUncompared(s1, s2) ==
  LET fresh(p) == findIndex(s1, p.key) = 0
  IN [err |-> "", val |-> s1 \o SelectSeq(s2, fresh)]

mergeSignaturesReplaced(s1, s2) ==
  LET r == mergeForEach(s1, s2, 1)
  IN IF r.err # "" THEN r ELSE [err |-> "", val |-> s2]

mergeSignatures(s1, s2) ==
  LET r == mergeForEach(s1, s2, 1)
  IN IF r.err # "" THEN r ELSE [err |-> "", val |-> r.val \o s2]

\* ------------------------------------------------------------- validation
\* chipcode's validateCode(code, codeOptions): the codes it finds random enough.
RandomCodes == {"t1", "s1"}
validateCode(code) == code \in RandomCodes

\* validateNew: "" when the record passes, else the message of the Error thrown.
validateNew(record, clock) ==
  IF ~validateCode(record.transactionCode)
  THEN "Transaction code is insufficiently random"
  ELSE IF ~validateCode(record.sessionCode)
  THEN "Session code is insufficiently random"
  ELSE IF record.start > clock
  THEN "Start time is in the future"
  ELSE IF record.promisesDue < record.start + minPromiseTime
  THEN "Promises due time is too early"
  ELSE ""

\* validateUpdate: "" when the record passes, else the message of the Error thrown.
validateUpdate(prior, record) ==
  IF record.transactionCode # prior.transactionCode
  THEN "Transaction code mismatch"
  ELSE IF record.sessionCode # prior.sessionCode
  THEN "Session code mismatch"
  ELSE IF JSONstringifyPayload(record.payload) # JSONstringifyPayload(prior.payload)
  THEN "Payload mismatch"
  ELSE IF JSONstringifyTopology(record.topology) # JSONstringifyTopology(prior.topology)
  THEN "Topology mismatch"
  ELSE ""

\* { ...prior, ...record, promises, commits }: every field of TrxRecord is
\* set in record, so the spread of record overrides the spread of prior.
spreadMerged(prior, record, promises, commits) ==
  [record EXCEPT !.promises = promises, !.commits = commits]

\* validateAndMerge; prior is <<>> (getTransaction found nothing) or <<record>>.
validateAndMerge(prior, record, clock) ==
  IF prior = <<>>
  THEN [err |-> validateNew(record, clock), val |-> record]
  ELSE LET e == validateUpdate(prior[1], record)
       IN IF e # "" THEN [err |-> e, val |-> record]
          ELSE LET p == mergeSignatures(prior[1].promises, record.promises)
               IN IF p.err # "" THEN [err |-> p.err, val |-> record]
                  ELSE LET c == mergeSignatures(prior[1].commits, record.commits)
                       IN IF c.err # "" THEN [err |-> c.err, val |-> record]
                          ELSE [err |-> "",
                                val |-> spreadMerged(prior[1], record, p.val, c.val)]

\* --------------------------------------------------------- getRecordState
keysOf(sigs) == {sigs[i].key : i \in 1..Len(sigs)}

participantsOf(record) ==
  {k \in DOMAIN record.topology.members : record.topology.members[k].isParticipant}

\* Variant: the referees filtered on isParticipant.
refereesOfParticipants(record) == participantsOf(record)

refereesOf(record) ==
  {k \in DOMAIN record.topology.members : record.topology.members[k].isReferee}

\* The first signature of sigs that fails verifyDigest against digest (0: none).
firstInvalid(sigs, digest) ==
  LET bad == {i \in 1..Len(sigs) : ~verifyDigest(sigs[i].key, digest, sigs[i].value)}
  IN IF bad = {} THEN 0 ELSE CHOOSE i \in bad : \A j \in bad : i <= j

\* Math.ceil(n / 2)
ceilHalf(n) == (n + 1) \div 2

\* The commits a record may carry while a promise is still missing
\* (participant.ts lines 156 and 160).
\* Variant: the check of commits on a partly promised record left out.
commitsOnUnpromisedUnchecked(record) == ""

commitsOnUnpromised(record) ==
  IF Len(record.commits) # 0
  THEN "Commit signatures present on un-promised transaction" ELSE ""

\* Variant: the threshold taken as half the referees, rounded down.
consensusReachedFloor(record, referees) ==
  Len(record.commits) >= Cardinality(referees) \div 2

consensusReached(record, referees) ==
  Len(record.commits) >= ceilHalf(Cardinality(referees))

\* Variant: ourCommitNeeded without the look for a commit of our own.
commitStateUnlooked(record, key, ourPromiseNeeded) ==
  LET referees == refereesOf(record)
      commitDigest == getCommitDigest(record, <<>>)
      bad == firstInvalid(record.commits, commitDigest)
  IN IF Len(record.commits) # Cardinality(keysOf(record.commits))
     THEN [err |-> "Duplicate commit signatures present", val |-> <<>>]
     ELSE IF \E i \in 1..Len(record.commits) : record.commits[i].key \notin referees
     THEN [err |-> "Commit signature is not for a referee", val |-> <<>>]
     ELSE IF bad # 0
     THEN [err |-> "Commit signature for " \o record.commits[bad].key \o " is invalid",
           val |-> <<>>]
     ELSE [err |-> "",
           val |-> [ourPromiseNeeded |-> ourPromiseNeeded,
                    fullyPromised |-> TRUE,
                    ourCommitNeeded |-> key \in referees,
                    consensusCommitted |-> consensusReached(record, referees),
                    fullyCommitted |-> Len(record.commits) = Cardinality(referees)]]

\* The fullyPromised branch of getRecordState (lines 138-154).
commitState(record, key, ourPromiseNeeded) ==
  LET referees == refereesOf(record)
      commitDigest == getCommitDigest(record, <<>>)
      bad == firstInvalid(record.commits, commitDigest)
  IN IF Len(record.commits) # Cardinality(keysOf(record.commits))
     THEN [err |-> "Duplicate commit signatures present", val |-> <<>>]
     ELSE IF \E i \in 1..Len(record.commits) : record.commits[i].key \notin referees
     THEN [err |-> "Commit signature is not for a referee", val |-> <<>>]
     ELSE IF bad # 0
     THEN [err |-> "Commit signature for " \o record.commits[bad].key \o " is invalid",
           val |-> <<>>]
     ELSE [err |-> "",
           val |-> [ourPromiseNeeded |-> ourPromiseNeeded,
                    fullyPromised |-> TRUE,
                    ourCommitNeeded |->
                      key \in referees /\ key \notin keysOf(record.commits),
                    consensusCommitted |-> consensusReached(record, referees),
                    fullyCommitted |-> Len(record.commits) = Cardinality(referees)]]

\* getRecordState for the node whose key is key.  val is the RecordState
\* returned: a record holding just the fields the code sets.
getRecordState(record, key) ==
  LET participants == participantsOf(record)
      promiseDigest == getPromiseDigest(record, <<>>)
      bad == firstInvalid(record.promises, promiseDigest)
  IN IF Len(record.promises) # Cardinality(keysOf(record.promises))
     THEN [err |-> "Duplicate promise signatures present", val |-> <<>>]
     ELSE IF \E i \in 1..Len(record.promises) : record.promises[i].key \notin participants
     THEN [err |-> "Promise signature is not for a participant", val |-> <<>>]
     ELSE IF bad # 0
     THEN [err |-> "Promise signature for " \o record.promises[bad].key \o " is invalid",
           val |-> <<>>]
     ELSE LET ourPromiseNeeded ==
                key \in participants /\ key \notin keysOf(record.promises)
          IN IF ~ourPromiseNeeded
             THEN LET fullyPromised == participants \subseteq keysOf(record.promises)
                  IN IF fullyPromised
                     THEN commitState(record, key, ourPromiseNeeded)
                     ELSE IF commitsOnUnpromised(record) # ""
                     THEN [err |-> commitsOnUnpromised(record), val |-> <<>>]
                     ELSE [err |-> "",
                           val |-> [ourPromiseNeeded |-> ourPromiseNeeded,
                                    fullyPromised |-> fullyPromised]]
             ELSE IF commitsOnUnpromised(record) # ""
             THEN [err |-> commitsOnUnpromised(record), val |-> <<>>]
             ELSE [err |-> "", val |-> [ourPromiseNeeded |-> ourPromiseNeeded]]

\* recordState.field as a condition: an unset field is undefined, which is falsy.
truthy(recordState, field) == field \in DOMAIN recordState /\ recordState[field]

\* ---------------------------------------------------------------- signing
\* state.sign(digest): the host's signer signs with this node's key.
stateSign(key, digest) == signDigest(key, digest)

addOurCommit(record, key, shouldCommit, clock) ==
  LET approved == shouldCommit /\ record.commitsDue <= clock
      sigType == IF approved THEN SignatureType.commit ELSE SignatureType.nocommit
      digest == getCommitDigest(record, <<toString(sigType)>>)
  IN [record EXCEPT !.commits =
        Append(@, [type |-> sigType, key |-> key, value |-> stateSign(key, digest)])]

\* Variant: the promise signed over the digest getRecordState verifies against.
addOurPromiseUntyped(record, key, shouldPromise, clock) ==
  LET approved == shouldPromise /\ record.promisesDue <= clock
      sigType == IF approved THEN SignatureType.promise ELSE SignatureType.nopromise
      digest == getPromiseDigest(record, <<>>)
  IN [record EXCEPT !.promises =
        Append(@, [type |-> sigType, key |-> key, value |-> stateSign(key, digest)])]

addOurPromise(record, key, shouldPromise, clock) ==
  LET approved == shouldPromise /\ record.promisesDue <= clock
      sigType == IF approved THEN SignatureType.promise ELSE SignatureType.nopromise
      digest == getPromiseDigest(record, <<toString(sigType)>>)
  IN [record EXCEPT !.promises =
        Append(@, [type |-> sigType, key |-> key, value |-> stateSign(key, digest)])]

\* ----------------------------------------------------------------- gossip
\* pushModified.  getReachablePeers is async and is called without await, so
\* reachablePeers is a Promise; a Promise has no map, and the call of
\* reachablePeers.map throws a TypeError before any getPeerRecord or
\* pushPeerRecord: the Promise pushModified returns is rejected, and no
\* peer is pushed to.
pushModified(record) ==
  [pushPeerRecord |-> <<>>, rejected |-> "TypeError: reachablePeers.map is not a function"]

\* ----------------------------------------------------------------- update
\* A call of a capability or helper: the record it is handed (<<>> when it
\* takes none) and its other argument (a key, a code or an error).
call(op, record, detail) == [op |-> op, record |-> record, detail |-> detail]

\* Variant: the prior is read before the peer's record is set.
receivedLate(record, fromKey) ==
  <<call("getTransaction", <<>>, record.transactionCode)>>
  \o (IF fromKey # NoKey
      THEN <<call("setPeerRecord", <<record>>, fromKey)>>
      ELSE <<>>)

\* Variant: the catch block logs and does not throw.
catchInvalidSwallowed(before, record, err) ==
  [thrown |-> "",
   calls |-> before \o <<call("logInvalid", <<record>>, err)>>,
   signed |-> 0,
   pushed |-> <<>>]

\* The catch block of update: logInvalid(record, err), then throw err.
catchInvalid(before, record, err) ==
  [thrown |-> err,
   calls |-> before \o <<call("logInvalid", <<record>>, err)>>,
   signed |-> 0,
   pushed |-> <<>>]

\* pushModified(record), not awaited: the call, and the pushPeerRecord calls
\* it issues.
pushCalls(record) ==
  <<call("pushModified", <<record>>, pushModified(record).rejected)>>
  \o pushModified(record).pushPeerRecord

\* The calls of addOurPromise and addOurCommit: the decider is asked, the
\* clock is read when it approved (&& evaluates Date.now() only then), and
\* the digest is signed.
toBoolean(b) == IF b THEN "true" ELSE "false"
signCalls(decider, record, answer, key, clock) ==
  <<call(decider, <<record>>, toBoolean(answer))>>
  \o (IF answer THEN <<call("Date.now", <<>>, toString(clock))>> ELSE <<>>)
  \o <<call("sign", <<>>, key)>>

\* Variant: the arm that promises goes on to commit in the same call.
signAndPushBoth(before, merged, recordState, key, shouldPromise, shouldCommit, clock) ==
  IF truthy(recordState, "ourPromiseNeeded")
  THEN LET promised == addOurPromise(merged, key, shouldPromise, clock)
           modified == addOurCommit(promised, key, shouldCommit, clock)
       IN [thrown |-> "",
           calls |-> before \o signCalls("shouldPromise", merged, shouldPromise, key, clock)
                           \o signCalls("shouldCommit", promised, shouldCommit, key, clock)
                           \o pushCalls(modified),
           signed |-> modified.promises[Len(modified.promises)].type,
           pushed |-> <<modified>>]
  ELSE IF truthy(recordState, "ourCommitNeeded")
  THEN LET modified == addOurCommit(merged, key, shouldCommit, clock)
       IN [thrown |-> "",
           calls |-> before \o signCalls("shouldCommit", merged, shouldCommit, key, clock)
                           \o pushCalls(modified),
           signed |-> modified.commits[Len(modified.commits)].type,
           pushed |-> <<modified>>]
  ELSE [thrown |-> "",
        calls |-> before \o pushCalls(merged),
        signed |-> 0,
        pushed |-> <<merged>>]

\* The three arms of the try block once getRecordState has returned.
signAndPush(before, merged, recordState, key, shouldPromise, shouldCommit, clock) ==
  IF truthy(recordState, "ourPromiseNeeded")
  THEN LET modified == addOurPromise(merged, key, shouldPromise, clock)
       IN [thrown |-> "",
           calls |-> before \o signCalls("shouldPromise", merged, shouldPromise, key, clock)
                           \o pushCalls(modified),
           signed |-> modified.promises[Len(modified.promises)].type,
           pushed |-> <<modified>>]
  ELSE IF truthy(recordState, "ourCommitNeeded")
  THEN LET modified == addOurCommit(merged, key, shouldCommit, clock)
       IN [thrown |-> "",
           calls |-> before \o signCalls("shouldCommit", merged, shouldCommit, key, clock)
                           \o pushCalls(modified),
           signed |-> modified.commits[Len(modified.commits)].type,
           pushed |-> <<modified>>]
  ELSE [thrown |-> "",
        calls |-> before \o pushCalls(merged),
        signed |-> 0,
        pushed |-> <<merged>>]

\* The start of update: setPeerRecord when fromKey is given, then getTransaction.
received(record, fromKey) ==
  (IF fromKey # NoKey
   THEN <<call("setPeerRecord", <<record>>, fromKey)>>
   ELSE <<>>)
  \o <<call("getTransaction", <<>>, record.transactionCode)>>

\* validateAndMerge, then getRecordState of the merged record: the error
\* thrown by either, or the merged record and its RecordState.
judge(txs, clock, key, record) ==
  LET merged == validateAndMerge(txs[record.transactionCode], record, clock)
  IN IF merged.err # "" THEN [err |-> merged.err]
     ELSE LET recordState == getRecordState(merged.val, key)
          IN IF recordState.err # "" THEN [err |-> recordState.err]
             ELSE [err |-> "", merged |-> merged.val, recordState |-> recordState.val]

\* The try and catch of update, given what judge found.
tryCatch(before, judged, record, key, shouldPromise, shouldCommit, clock) ==
  IF judged.err # "" THEN catchInvalid(before, record, judged.err)
  ELSE signAndPush(before, judged.merged, judged.recordState, key,
                   shouldPromise, shouldCommit, clock)

\* update(record, fromKey) at the node whose key is key, over the host's
\* transaction store txs at time clock; shouldPromise and shouldCommit are
\* what the decider would answer.  The result: the error thrown ("" when the
\* call resolves), the calls made in order, the type of the signature
\* appended, and the record handed to pushModified.
update(txs, clock, key, record, fromKey, shouldPromise, shouldCommit) ==
  tryCatch(received(record, fromKey), judge(txs, clock, key, record), record, key,
           shouldPromise, shouldCommit, clock)

\* The host's transaction store after an update call: getTransaction answers
\* with the record of the last completed update of the transaction.
hostStore(txs, code, u) ==
  IF u.thrown = "" THEN [txs EXCEPT ![code] = u.pushed] ELSE txs

\* ------------------------------------------------------------ environment
TransactionCodes == {"t1", "w"}

\* The immutable fields of the planned transaction.
planned(t) ==
  [transactionCode |-> "t1", sessionCode |-> "s1", payload |-> "{}", topology |-> t,
   start |-> 0, promisesDue |-> 1, commitsDue |-> 1, promises |-> <<>>, commits |-> <<>>]

\* The planned fields and every change of one of them.
FieldChoices(t) ==
  {planned(t),
   [planned(t) EXCEPT !.transactionCode = "w"],
   [planned(t) EXCEPT !.sessionCode = "w"],
   [planned(t) EXCEPT !.payload = "null"],
   [planned(t) EXCEPT !.payload = "NaN"],
   [planned(t) EXCEPT !.topology = otherTopology(t)],
   [planned(t) EXCEPT !.start = 1],
   [planned(t) EXCEPT !.promisesDue = 2],
   [planned(t) EXCEPT !.commitsDue = 2]}

RECURSIVE SeqsUpTo(_, _)
SeqsUpTo(S, n) ==
  IF n = 0 THEN {<<>>}
  ELSE LET shorter == SeqsUpTo(S, n - 1)
       IN shorter \cup {Append(q, x) : q \in {r \in shorter : Len(r) = n - 1}, x \in S}

\* How the signers of an incoming record signed: with the approving or the
\* refusing type, over the digest getRecordState verifies against (plain) or
\* over the digest addOurPromise and addOurCommit sign (with the type added).
Styles == {[approve |-> TRUE, typed |-> FALSE], [approve |-> FALSE, typed |-> FALSE],
           [approve |-> TRUE, typed |-> TRUE]}

withPromises(fields, keys, style) ==
  LET sigType == IF style.approve THEN SignatureType.promise ELSE SignatureType.nopromise
      digest == getPromiseDigest(fields, IF style.typed THEN <<toString(sigType)>> ELSE <<>>)
  IN [fields EXCEPT !.promises =
        [i \in 1..Len(keys) |->
           [type |-> sigType, key |-> keys[i], value |-> signDigest(keys[i], digest)]]]

withCommits(record, keys, style) ==
  LET sigType == IF style.approve THEN SignatureType.commit ELSE SignatureType.nocommit
      digest == getCommitDigest(record, IF style.typed THEN <<toString(sigType)>> ELSE <<>>)
  IN [record EXCEPT !.commits =
        [i \in 1..Len(keys) |->
           [type |-> sigType, key |-> keys[i], value |-> signDigest(keys[i], digest)]]]

\* The signers of the two lists of an incoming record: at most MaxSigs
\* signatures in all.
SignerChoices ==
  {pc \in SeqsUpTo(Keys, MaxSigs) \X SeqsUpTo(Keys, MaxSigs) :
     Len(pc[1]) + Len(pc[2]) <= MaxSigs}

\* The records a caller may hand to update: the planned fields under every
\* choice of signers, and the bare record with one field changed.
Incoming(t) ==
  {withCommits(withPromises(planned(t), pc[1], style), pc[2], style) :
     pc \in SignerChoices, style \in Styles}
  \cup FieldChoices(t)

IncomingOf == [t \in Topologies |-> Incoming(t)]

FromKeys == {NoKey} \cup Keys

\* ---------------------------------------------------------------- actions
\* The two update calls of RaceSpec, neither made yet; the nodes of NetSpec,
\* their stores empty.
Tasks == {1, 2}
NoTask == [pc |-> "idle", record |-> <<>>, prior |-> <<>>]
NoTasks == [i \in Tasks |-> NoTask]
NetKeys == {"k1", "k2", "k3"}
EmptyStore == [c \in TransactionCodes |-> <<>>]
NoStores == [n \in NetKeys |-> EmptyStore]

Init ==
  /\ now = 0
  /\ \E s \in Sessions : ourKey = s.ourKey /\ topology = s.topology
  /\ transactions = EmptyStore
  /\ thrown = ""
  /\ calls = <<>>
  /\ signed = 0
  /\ judgment = <<>>
  /\ regress = FALSE
  /\ stale = <<>>
  /\ retry = <<>>
  /\ sigs1 = <<>> /\ sigs2 = <<>> /\ merged12 = <<>> /\ merged21 = <<>>
  /\ tasks = NoTasks /\ emitted = {}
  /\ stores = NoStores /\ network = {}

\* The answers the decider may give when asked: it is asked only in the arm
\* of update that signs.
answers(judged, field) ==
  IF judged.err = "" /\ truthy(judged.recordState, field) THEN BOOLEAN ELSE {FALSE}

\* A call as the state keeps it: whether it was handed the incoming record,
\* and its other argument or its outcome (for setPeerRecord, whether the key
\* is the fromKey update was given).
kept(c, record, fromKey) ==
  [op |-> c.op, incoming |-> c.record = <<record>>,
   detail |-> IF c.op = "setPeerRecord" /\ c.detail = fromKey THEN "fromKey"
              ELSE c.detail]

\* Whether the stored record carries more promises or more commits than the
\* incoming one.
fewer(prior, record) ==
  /\ prior # <<>>
  /\ \/ Len(record.promises) < Len(prior[1].promises)
     \/ Len(record.commits) < Len(prior[1].commits)

\* Whether the incoming record agrees with a stored record that carries
\* commits: the creation fields are the same and each of its signatures is
\* one of the stored record's.
within(sigs, held) ==
  /\ \A i \in 1..Len(sigs) : \E j \in 1..Len(held) : sigs[i] = held[j]
  /\ \A i, j \in 1..Len(sigs) : sigs[i].key = sigs[j].key => i = j
agrees(prior, record) ==
  /\ prior # <<>>
  /\ prior[1].commits # <<>>
  /\ [record EXCEPT !.promises = <<>>, !.commits = <<>>]
       = [prior[1] EXCEPT !.promises = <<>>, !.commits = <<>>]
  /\ within(record.promises, prior[1].promises)
  /\ within(record.commits, prior[1].commits)

\* The caller's retry of a resolved call: update once more, with the same
\* arguments and answers, over the store the first call left.
retried(txs, record, fromKey, shouldPromise, shouldCommit) ==
  LET again == update(txs, now, ourKey, record, fromKey, shouldPromise, shouldCommit)
  IN <<[thrown |-> again.thrown, signed |-> again.signed,
        transactions |-> hostStore(txs, record.transactionCode, again)]>>

\* The state an update call leaves, u being what update returned.
completed(record, fromKey, shouldPromise, shouldCommit, judged, u) ==
  /\ transactions' = hostStore(transactions, record.transactionCode, u)
  /\ thrown' = u.thrown
  /\ calls' = [i \in 1..Len(u.calls) |-> kept(u.calls[i], record, fromKey)]
  /\ signed' = u.signed
  /\ judgment' = <<judged>>
  /\ regress' = (u.thrown = "" /\ fewer(transactions[record.transactionCode], record))
  /\ stale' = IF agrees(transactions[record.transactionCode], record)
              THEN <<record.transactionCode>> ELSE <<>>
  /\ retry' = IF u.thrown # "" THEN <<>>
              ELSE retried(hostStore(transactions, record.transactionCode, u), record,
                           fromKey, shouldPromise, shouldCommit)
  /\ UNCHANGED <<now, ourKey, topology, mergeVars, raceVars, netVars>>

continued(record, judged) ==
  \E fromKey \in FromKeys, shouldPromise \in answers(judged, "ourPromiseNeeded"),
     shouldCommit \in answers(judged, "ourCommitNeeded") :
    completed(record, fromKey, shouldPromise, shouldCommit, judged,
              tryCatch(received(record, fromKey), judged, record, ourKey,
                       shouldPromise, shouldCommit, now))

\* One call of update, run to its end.
Update ==
  \E record \in IncomingOf[topology] :
    continued(record, judge(transactions, now, ourKey, record))

\* The clock advances.
Tick ==
  /\ now < MaxTime
  /\ now' = now + 1
  /\ UNCHANGED <<ourKey, topology, callVars, mergeVars, raceVars, netVars>>

Next == Update \/ Tick

Spec == Init /\ [][Next]_vars

\* ------------------------------------------------------ mergeSignatures alone
\* The signature lists handed to mergeSignatures: lists of at most
\* MaxMergeLen signatures with distinct keys.
MergeKeys == {"k1", "k2", "k3"}
MergeSignatures ==
  [type : {SignatureType.promise, SignatureType.nopromise}, key : MergeKeys,
   value : {"v1", "v2"}]
MergeLists ==
  {q \in SeqsUpTo(MergeSignatures, MaxMergeLen) :
     \A i, j \in 1..Len(q) : q[i].key = q[j].key => i = j}

InitMerge ==
  /\ now = 0 /\ ourKey = "k1" /\ topology = TopologyS1
  /\ transactions = [c \in TransactionCodes |-> <<>>]
  /\ thrown = "" /\ calls = <<>> /\ signed = 0
  /\ judgment = <<>> /\ regress = FALSE /\ stale = <<>> /\ retry = <<>>
  /\ sigs1 \in MergeLists
  /\ sigs2 \in MergeLists
  /\ merged12 = <<>>
  /\ merged21 = <<>>
  /\ tasks = NoTasks /\ emitted = {}
  /\ stores = NoStores /\ network = {}

\* mergeSignatures is called on the two lists, in both orders.
Merge ==
  /\ merged12 = <<>>
  /\ merged12' = <<mergeSignatures(sigs1, sigs2)>>
  /\ merged21' = <<mergeSignatures(sigs2, sigs1)>>
  /\ UNCHANGED <<now, ourKey, topology, callVars, sigs1, sigs2, raceVars, netVars>>

NextMerge == Merge

MergeSpec == InitMerge /\ [][NextMerge]_vars

\* ------------------------------------------------- two update calls at a node
\* The host runs two update calls for one transaction at one node without
\* serializing them.  A call is suspended at each capability it awaits: it
\* reads the prior (getTransaction), and later, on the prior it read, it
\* validates, merges, asks the decider, reads the clock, signs and hands the
\* record to pushModified; the store then holds the record of the call that
\* completed last.
MaxRaceSigs == 1
RaceIncoming ==
  [t \in Topologies |->
     {r \in IncomingOf[t] : Len(r.promises) + Len(r.commits) <= MaxRaceSigs}]

InitRace ==
  /\ now = 0
  /\ \E s \in Sessions : ourKey = s.ourKey /\ topology = s.topology
  /\ transactions = EmptyStore
  /\ thrown = "" /\ calls = <<>> /\ signed = 0
  /\ judgment = <<>> /\ regress = FALSE /\ stale = <<>> /\ retry = <<>>
  /\ sigs1 = <<>> /\ sigs2 = <<>> /\ merged12 = <<>> /\ merged21 = <<>>
  /\ tasks = NoTasks /\ emitted = {}
  /\ stores = NoStores /\ network = {}

\* update(record) is called and runs until getTransaction has answered.
\* The node has signed nothing yet, so no record in flight carries a
\* signature under its key.
ReadPrior ==
  \E i \in Tasks, record \in RaceIncoming[topology] :
    /\ tasks[i].pc = "idle"
    /\ ourKey \notin keysOf(record.promises) \cup keysOf(record.commits)
    /\ tasks' = [tasks EXCEPT ![i] = [pc |-> "read", record |-> <<record>>,
                                      prior |-> transactions[record.transactionCode]]]
    /\ UNCHANGED <<now, ourKey, topology, callVars, mergeVars, emitted, netVars>>

\* The state the rest of a call leaves, u being what update returned on the
\* prior the call had read.
raced(i, record, u) ==
  /\ tasks' = [tasks EXCEPT ![i] = [pc |-> "done", record |-> <<>>, prior |-> <<>>]]
  /\ emitted' = IF u.thrown = "" THEN emitted \cup {u.pushed[1]} ELSE emitted
  /\ transactions' = hostStore(transactions, record.transactionCode, u)
  /\ thrown' = u.thrown
  /\ signed' = u.signed
  /\ UNCHANGED <<now, ourKey, topology, calls, judgment, regress, stale, retry,
                 mergeVars, netVars>>

resumed(i, record, judged) ==
  \E shouldPromise \in answers(judged, "ourPromiseNeeded"),
     shouldCommit \in answers(judged, "ourCommitNeeded") :
    raced(i, record, tryCatch(<<>>, judged, record, ourKey, shouldPromise,
                              shouldCommit, now))

\* A call that has read its prior runs to its end.
Resume ==
  \E i \in Tasks :
    /\ tasks[i].pc = "read"
    /\ resumed(i, tasks[i].record[1],
               judge([transactions EXCEPT ![tasks[i].record[1].transactionCode] =
                        tasks[i].prior], now, ourKey, tasks[i].record[1]))

NextRace == ReadPrior \/ Resume \/ Tick

RaceSpec == InitRace /\ [][NextRace]_vars

\* ------------------------------------------------------------- the network
\* Three participants, k1 also the referee, each running update honestly
\* with a decider that always approves.  The originator sends the bare
\* record to one participant; records in flight are delivered in any order,
\* once or again; a node's store holds the record its last completed update
\* handed to pushModified.
InitNet ==
  /\ now = 0
  /\ ourKey = "k1"
  /\ topology = TopologyNet
  /\ transactions = EmptyStore
  /\ thrown = "" /\ calls = <<>> /\ signed = 0
  /\ judgment = <<>> /\ regress = FALSE /\ stale = <<>> /\ retry = <<>>
  /\ sigs1 = <<>> /\ sigs2 = <<>> /\ merged12 = <<>> /\ merged21 = <<>>
  /\ tasks = NoTasks /\ emitted = {}
  /\ stores = NoStores
  /\ network = {}

inFlight(to, record) == [to |-> to, record |-> record]

\* The originator sends the bare record to one participant.
Originate ==
  \E p \in participantsOf(planned(TopologyNet)) :
    /\ network = {}
    /\ stores = NoStores
    /\ network' = network \cup {inFlight(p, planned(TopologyNet))}
    /\ UNCHANGED <<now, ourKey, topology, callVars, mergeVars, raceVars, stores>>

\* The records the pushPeerRecord calls of an update call put in flight.
pushedTo(u) ==
  {inFlight(u.calls[i].detail, u.calls[i].record[1]) :
     i \in {j \in 1..Len(u.calls) : u.calls[j].op = "pushPeerRecord"}}

\* The state the update call of a delivery leaves, u being what update returned.
delivered(m, again, u) ==
  /\ stores' = [stores EXCEPT ![m.to] = hostStore(@, m.record.transactionCode, u)]
  /\ network' = (IF again THEN network ELSE network \ {m}) \cup pushedTo(u)
  /\ thrown' = u.thrown
  /\ ourKey' = m.to
  /\ UNCHANGED <<now, topology, transactions, calls, signed, judgment, regress, stale,
                 retry, mergeVars, raceVars>>

\* A record in flight reaches its node, which runs update on it; the
\* transport may deliver the record again later.
Deliver ==
  \E m \in network, again \in BOOLEAN :
    \E u \in {update(stores[m.to], now, m.to, m.record, NoKey, TRUE, TRUE)} :
      delivered(m, again, u)

\* The transport carries the record a node handed to pushModified to
\* another member.
Forward ==
  \E n \in NetKeys, to \in NetKeys :
    /\ to # n
    /\ stores[n]["t1"] # <<>>
    /\ inFlight(to, stores[n]["t1"][1]) \notin network
    /\ network' = network \cup {inFlight(to, stores[n]["t1"][1])}
    /\ UNCHANGED <<now, ourKey, topology, callVars, mergeVars, raceVars, stores>>

NextNet == Originate \/ Deliver \/ Forward \/ Tick

\* Every record in flight is delivered in the end, and time goes on.
NetSpec ==
  /\ InitNet
  /\ [][NextNet]_vars
  /\ WF_vars(Originate) /\ WF_vars(Deliver) /\ WF_vars(Forward) /\ WF_vars(Tick)

\* --------------------------------------------------------------- properties
\* The record getRecordState accepted in the last update call and the
\* RecordState it returned; the record stored for a transaction code.
accepted == judgment # <<>> /\ judgment[1].err = ""
acceptedRecord == judgment[1].merged
acceptedState == judgment[1].recordState
stored(code) == transactions[code][1]

allPromised(record) == participantsOf(record) \subseteq keysOf(record.promises)

\* C1: every record getRecordState accepts, and every record update hands on
\* and the store keeps, has all participants among the keys of its promises
\* whenever its commits list is not empty.
CommitsOnlyOnPromised ==
  /\ accepted => (acceptedRecord.commits # <<>> => allPromised(acceptedRecord))
  /\ \A code \in TransactionCodes :
       transactions[code] # <<>> =>
         (stored(code).commits # <<>> => allPromised(stored(code)))

\* An update call resolved on a record that carries a commit.
CommitsOnlyOnPromisedWitness ==
  /\ accepted
  /\ thrown = ""
  /\ acceptedRecord.commits # <<>>
  /\ transactions["t1"] # <<>>
  /\ stored("t1").commits # <<>>

\* The seven fields fixed at creation.
immutable(record) ==
  <<record.transactionCode, record.sessionCode, record.payload, record.topology,
    record.start, record.promisesDue, record.commitsDue>>

\* C2: once a record is stored for a transaction code, no update call
\* changes any of its seven creation fields: a call whose incoming record
\* differs in one of them fails, and the stored record keeps them.
ImmutableFieldsKept ==
  [][\A code \in TransactionCodes :
       transactions[code] # <<>> =>
         /\ transactions'[code] # <<>>
         /\ immutable(transactions'[code][1]) = immutable(stored(code))]_vars

\* Every signature of a list verifies against the digest.
allVerify(sigs, digest) ==
  \A i \in 1..Len(sigs) : verifyDigest(sigs[i].key, digest, sigs[i].value)

\* C3: every signature of the record an update call hands on verifies, the
\* promises against the promise digest of that record and the commits
\* against its commit digest, so that a peer's getRecordState accepts it.
SignaturesVerify ==
  \A code \in TransactionCodes :
    transactions[code] # <<>> =>
      /\ allVerify(stored(code).promises, getPromiseDigest(stored(code), <<>>))
      /\ allVerify(stored(code).commits, getCommitDigest(stored(code), <<>>))
      /\ \A key \in Keys : getRecordState(stored(code), key).err = ""

threshold(record) == ceilHalf(Cardinality(refereesOf(record)))

\* C4 as stated: for every accepted record, consensusCommitted is true
\* exactly when the commits are at least half the referees, rounded up.
ConsensusIffThreshold ==
  accepted =>
    (truthy(acceptedState, "consensusCommitted")
       <=> Len(acceptedRecord.commits) >= threshold(acceptedRecord))

\* C4, amended: for every accepted record, consensusCommitted is true
\* exactly when the record is fully promised and its commits are at least
\* half the referees, rounded up; on a record not fully promised it is not
\* set, whatever the referees.
ConsensusIffPromisedAndThreshold ==
  accepted =>
    (truthy(acceptedState, "consensusCommitted")
       <=> /\ allPromised(acceptedRecord)
           /\ Len(acceptedRecord.commits) >= threshold(acceptedRecord))

\* A fully promised record of a session with referees reached the threshold,
\* from the commits it carries.
ConsensusIffPromisedAndThresholdWitness ==
  /\ accepted
  /\ truthy(acceptedState, "consensusCommitted")
  /\ refereesOf(acceptedRecord) # {}
  /\ Len(acceptedRecord.commits) = threshold(acceptedRecord)

\* C5: consensusCommitted is true only when commits of more than half the
\* referees are on the record.
ConsensusByMajority ==
  accepted /\ truthy(acceptedState, "consensusCommitted") =>
    2 * Cardinality(keysOf(acceptedRecord.commits) \cap refereesOf(acceptedRecord))
      > Cardinality(refereesOf(acceptedRecord))

entries(sigs) == {sigs[i] : i \in 1..Len(sigs)}
merged == merged12 # <<>>

\* C6: when mergeSignatures(a, b) does not throw on two lists of unique
\* keys, its result holds each key of a or b exactly once and no other, each
\* with the type and value the inputs hold for it.
MergeUnion ==
  merged /\ merged12[1].err = "" =>
    LET m == merged12[1].val
    IN /\ keysOf(m) = keysOf(sigs1) \cup keysOf(sigs2)
       /\ Len(m) = Cardinality(keysOf(m))
       /\ entries(m) = entries(sigs1) \cup entries(sigs2)

\* Two lists that share a key and each hold a key of their own were merged.
MergeUnionWitness ==
  /\ merged
  /\ merged12[1].err = ""
  /\ keysOf(sigs1) \cap keysOf(sigs2) # {}
  /\ keysOf(sigs1) \ keysOf(sigs2) # {}
  /\ keysOf(sigs2) \ keysOf(sigs1) # {}

\* C7: on two lists of unique keys mergeSignatures(a, b) throws exactly
\* when mergeSignatures(b, a) does, and when neither throws the two results
\* hold the same set of entries.
MergeCommutes ==
  merged =>
    /\ merged12[1].err # "" <=> merged21[1].err # ""
    /\ merged12[1].err = "" => entries(merged12[1].val) = entries(merged21[1].val)

\* The two orders gave the same entries in a different order.
MergeCommutesWitness ==
  /\ merged
  /\ merged12[1].err = ""
  /\ merged21[1].err = ""
  /\ merged12[1].val # merged21[1].val
  /\ keysOf(sigs1) \cap keysOf(sigs2) # {}

\* C8: an update call never takes a signature from the record stored for a
\* transaction code: the promises and commits stored after the call hold
\* every entry stored before it, and are no shorter.
SignaturesKept ==
  [][\A code \in TransactionCodes :
       transactions[code] # <<>> =>
         /\ transactions'[code] # <<>>
         /\ entries(stored(code).promises) \subseteq entries(transactions'[code][1].promises)
         /\ entries(stored(code).commits) \subseteq entries(transactions'[code][1].commits)
         /\ Len(stored(code).promises) <= Len(transactions'[code][1].promises)
         /\ Len(stored(code).commits) <= Len(transactions'[code][1].commits)]_vars

\* An update call resolved on an incoming record with fewer signatures than
\* the stored one.
SignaturesKeptWitness ==
  /\ regress
  /\ thrown = ""
  /\ stored("t1").promises # <<>>

logs == {i \in 1..Len(calls) : calls[i].op = "logInvalid"}

\* C10: when validateAndMerge or getRecordState rejects the incoming
\* record, update calls logInvalid once, with that record and that error,
\* throws that error, and calls neither pushModified nor pushPeerRecord.
RejectedIsLoggedAndThrown ==
  judgment # <<>> /\ judgment[1].err # "" =>
    /\ thrown = judgment[1].err
    /\ Cardinality(logs) = 1
    /\ \A i \in logs : calls[i].incoming /\ calls[i].detail = judgment[1].err
    /\ \A i \in 1..Len(calls) : calls[i].op \notin {"pushModified", "pushPeerRecord"}
    /\ signed = 0

\* An update call was rejected for a signature that changed against the
\* stored record.
RejectedIsLoggedAndThrownWitness ==
  /\ judgment # <<>>
  /\ judgment[1].err = "Signature or type for k1 has changed"
  /\ thrown # ""

asked(op) == {i \in 1..Len(calls) : calls[i].op = op}

\* The clock read by the last update call was no later than the deadline.
readBy(deadline) ==
  \E i \in asked("Date.now"), t \in 0..MaxTime :
    calls[i].detail = toString(t) /\ t <= deadline

\* C11: when update finds ourPromiseNeeded, the signature it appends is a
\* promise exactly when the decider approved and the clock had not passed
\* promisesDue, and a nopromise otherwise.
PromiseIffApprovedInTime ==
  \A i \in asked("shouldPromise") :
    /\ signed \in {SignatureType.promise, SignatureType.nopromise}
    /\ signed = SignatureType.promise
         <=> calls[i].detail = "true" /\ readBy(acceptedRecord.promisesDue)

\* C12: an update call that started a push which failed fails with the
\* error of the push; it does not resolve while a push of its own is
\* rejected.
PushFailureReachesCaller ==
  \A i \in asked("pushModified") :
    calls[i].detail # "" => thrown = calls[i].detail

hasRoles(record) ==
  /\ \A i \in 1..Len(record.promises) :
       /\ record.promises[i].key \in DOMAIN record.topology.members
       /\ record.topology.members[record.promises[i].key].isParticipant
  /\ \A i \in 1..Len(record.commits) :
       /\ record.commits[i].key \in DOMAIN record.topology.members
       /\ record.topology.members[record.commits[i].key].isReferee

\* C13: in every record getRecordState accepts and every record update
\* hands on, each promise is under the key of a participant and each commit
\* under the key of a referee.
RoleMembership ==
  /\ accepted => hasRoles(acceptedRecord)
  /\ \A code \in TransactionCodes : transactions[code] # <<>> => hasRoles(stored(code))

\* A record with a commit was accepted in a session where one member is no
\* referee.
RoleMembershipWitness ==
  /\ accepted
  /\ thrown = ""
  /\ acceptedRecord.commits # <<>>
  /\ \E k \in Keys : ~acceptedRecord.topology.members[k].isReferee

\* The last update call resolved at a node that is participant and referee,
\* on a record in which its promise alone was missing (scenario S1).
ownPromiseAloneMissing ==
  /\ accepted
  /\ thrown = ""
  /\ acceptedRecord.topology.members[ourKey].isParticipant
  /\ acceptedRecord.topology.members[ourKey].isReferee
  /\ keysOf(acceptedRecord.promises) = participantsOf(acceptedRecord) \ {ourKey}
handedOn == stored(acceptedRecord.transactionCode)

\* C14 as stated: in scenario S1 the one update call appends the node's
\* promise and its commit, and the record it hands on carries both.
PromiseAndCommitInOneCall ==
  ownPromiseAloneMissing =>
    /\ ourKey \in keysOf(handedOn.promises)
    /\ ourKey \in keysOf(handedOn.commits)

\* C14, amended: in scenario S1 the one update call appends the node's
\* promise, which makes the record fully promised, and no commit: the
\* decider is not asked shouldCommit and the record handed on carries the
\* commits of the merged record only.
PromiseAloneInOneCall ==
  ownPromiseAloneMissing =>
    /\ signed \in {SignatureType.promise, SignatureType.nopromise}
    /\ ourKey \in keysOf(handedOn.promises)
    /\ allPromised(handedOn)
    /\ handedOn.commits = acceptedRecord.commits
    /\ ourKey \notin keysOf(handedOn.commits)
    /\ asked("shouldCommit") = {}

\* Scenario S1 happened, on a record carrying the other participant's promise.
PromiseAloneInOneCallWitness ==
  /\ ownPromiseAloneMissing
  /\ acceptedRecord.promises # <<>>
  /\ signed # 0

\* record with one entry appended to its promises (commits), under a key
\* the list did not hold.
appended(list, before, key) ==
  /\ Len(list) = Len(before) + 1
  /\ SubSeq(list, 1, Len(before)) = before
  /\ list[Len(list)].key = key
  /\ key \notin keysOf(before)

\* C15: the record an update call hands on is the merged record with at
\* most one entry added, a promise or a commit and never both, under the
\* node's own key, which did not have an entry in that list.
AtMostOneOwnSignature ==
  accepted /\ thrown = "" =>
    \/ signed = 0 /\ handedOn = acceptedRecord
    \/ /\ signed \in {SignatureType.promise, SignatureType.nopromise}
       /\ appended(handedOn.promises, acceptedRecord.promises, ourKey)
       /\ [handedOn EXCEPT !.promises = acceptedRecord.promises] = acceptedRecord
    \/ /\ signed \in {SignatureType.commit, SignatureType.nocommit}
       /\ appended(handedOn.commits, acceptedRecord.commits, ourKey)
       /\ [handedOn EXCEPT !.commits = acceptedRecord.commits] = acceptedRecord

\* A commit was appended to a merged record that carried a commit.
AtMostOneOwnSignatureWitness ==
  /\ accepted
  /\ thrown = ""
  /\ signed \in {SignatureType.commit, SignatureType.nocommit}
  /\ acceptedRecord.commits # <<>>

\* Every signature of the record verifies as getRecordState verifies it.
verifies(record) ==
  /\ allVerify(record.promises, getPromiseDigest(record, <<>>))
  /\ allVerify(record.commits, getCommitDigest(record, <<>>))

\* C16: when the stored record carries commits, all its signatures verify,
\* and the incoming record agrees with it (the same creation fields, the
\* same or fewer signatures), the merged record's promises are the stored
\* promises in the stored order, and the update call is not rejected.
PromisesKeepOrder ==
  [][stale' # <<>> /\ verifies(stored(stale'[1])) =>
       /\ judgment'[1].err = ""
       /\ thrown' = ""
       /\ judgment'[1].merged.promises = stored(stale'[1]).promises]_vars

under(sigs, key) == {[type |-> p.type, value |-> p.value] : p \in {q \in entries(sigs) : q.key = key}}

\* C17: two update calls for one transaction that both read the prior
\* before either completed never hand on two records that carry different
\* signatures under the node's own key, in promises or in commits.
OneSignaturePerKey ==
  \A r1, r2 \in emitted :
    /\ under(r1.promises, ourKey) # {} /\ under(r2.promises, ourKey) # {}
         => under(r1.promises, ourKey) = under(r2.promises, ourKey)
    /\ under(r1.commits, ourKey) # {} /\ under(r2.commits, ourKey) # {}
         => under(r1.commits, ourKey) = under(r2.commits, ourKey)

\* getRecordState reports the record a node holds fully promised and fully
\* committed.
final(n) ==
  /\ stores[n]["t1"] # <<>>
  /\ getRecordState(stores[n]["t1"][1], n).err = ""
  /\ truthy(getRecordState(stores[n]["t1"][1], n).val, "fullyPromised")
  /\ truthy(getRecordState(stores[n]["t1"][1], n).val, "fullyCommitted")

\* C19: in the network of honest nodes whose deciders approve, where every
\* record in flight is delivered and time passes the deadlines, every node
\* comes to hold a record that is fully promised and fully committed.
EventuallyFinal == <>(\A n \in NetKeys : final(n))

\* C20: in the network of honest nodes, where records are only delayed,
\* reordered or delivered again, no update call fails with a protocol error.
HonestNeverRejected == thrown = ""

====
